---- MODULE Spec2Model ----
(***************************************************************************)
(* A model of template.go (package template of pongo): the delimiter       *)
(* lexer that turns a template source into a node list (processContent,    *)
(* processComment, processFilter, processTag and the add*Node helpers),    *)
(* and the cursor-based execution engine (Execute, executeUntilAnyTagNode, *)
(* ignoreUntilAnyTagNode).                                                 *)
(*                                                                         *)
(* A byte is a one-character string; a Go string is a sequence of bytes.   *)
(* Offsets (pos, start, node_pos) are 0-based as in the source, so byte    *)
(* raw[i] of the source is raw[i+1] here.                                  *)
(***************************************************************************)
EXTENDS Integers, Sequences, FiniteSets, TLC

VARIABLES
    raw,        \* tpl.raw, the source
    pos,        \* tpl.pos
    start,      \* tpl.start
    length,     \* tpl.length
    err,        \* tpl.err
    line,       \* tpl.line
    col,        \* tpl.col
    nodes,      \* tpl.nodes
    parsed,     \* tpl.parsed
    state,      \* where FromString is: the local `state` of parse while its loop runs
    result,     \* what FromString returned
    reparses,   \* history: the calls of parse made on the Template FromString returned
    steps,      \* history: the number of calls state(tpl) the loop of parse has made
    node_pos,   \* tpl.node_pos, the execution cursor
    ncalls,     \* number of Execute calls made so far
    stack,      \* per Execute call, its call stack (empty when not in flight)
    rets,       \* per Execute call, its context, where the cursor was, what it returned
    log,        \* history: the node.execute and Ignore calls made, in order
    overlap,    \* history: an Execute call was made while another was in flight
    lastUntil   \* history: the last executeUntilAnyTagNode or ignoreUntilAnyTagNode
                \* call that returned: its arguments, where the cursor was, its results

lexvars == <<raw, pos, start, length, err, line, col, nodes, parsed, state, result,
             reparses, steps>>
execvars == <<node_pos, ncalls, stack, rets, log, overlap, lastUntil>>
vars == <<raw, pos, start, length, err, line, col, nodes, parsed, state, result,
          reparses, steps, node_pos, ncalls, stack, rets, log, overlap, lastUntil>>

(***************************************************************************)
(* Bounds of the model.                                                    *)
(***************************************************************************)
\* number of chunks (bytes, two-byte delimiters, short regions) a source of Spec is made of
MaxChunks == 3
\* number of regions a source of Spec is made of, before it is wrapped in an if
MaxRegions == 3
\* number of regions a source of SpecConc is made of
MaxConcRegions == 2
\* number of Execute calls made on one Template
MaxCalls == 2
\* number of parse calls made on a Template after FromString has returned it
MaxReparses == 2
\* number of pieces (words, white space bytes) between the delimiters of a source of SpecTag
MaxPieces == 3

(***************************************************************************)
(* Bytes and strings.                                                      *)
(***************************************************************************)
NL == "\n"

\* unicode.IsSpace on the bytes of the model's alphabet (strings.TrimSpace)
IsSpace(b) == b \in {" ", "\n", "\t", "\r"}

RECURSIVE TrimLeft(_)
TrimLeft(s) == IF s # <<>> /\ IsSpace(Head(s)) THEN TrimLeft(Tail(s)) ELSE s

RECURSIVE TrimRight(_)
TrimRight(s) ==
    IF s # <<>> /\ IsSpace(s[Len(s)]) THEN TrimRight(SubSeq(s, 1, Len(s) - 1)) ELSE s

\* strings.TrimSpace
TrimSpace(s) == TrimRight(TrimLeft(s))

\* raw[from : to] of Go (0-based, to exclusive)
Slice(s, from, to) == SubSeq(s, from + 1, to)

RECURSIVE Flatten(_)
Flatten(ss) == IF ss = <<>> THEN <<>> ELSE Head(ss) \o Flatten(Tail(ss))

(***************************************************************************)
(* Errors.  tpl.err is a string, "" when there is none; a message is       *)
(* modelled as the tuple of its fixed text and its formatted argument.     *)
(***************************************************************************)
NoErr == <<>>
ErrEndComment == <<"File end reached within comment">>
ErrEndFilter == <<"File end reached within filter">>
ErrEndTag == <<"File end reached within tag">>
ErrEndOpen == <<"File end reached (after opening '{')">>
ErrUnknownOpen(nc) == <<"Unknown open command", <<nc>>>>
ErrEmptyFilter == <<"Empty filter">>
ErrEmptyTag == <<"Empty tag">>
ErrNoTag(name) == <<"Tag does not exist", name>>
ErrNoContent == <<"Template has no content">>
ErrExpr(src) == <<"Malformed expression", src>>

(***************************************************************************)
(* External collaborators of template.go: the expression compiler and the  *)
(* tag registry live in other files of the package.                        *)
(***************************************************************************)
\* bytes an expression may be made of
IdentBytes == {"a"}

\* newExpr: compiles the trimmed text of a filter region, or fails on malformed text
NewExpr(src) ==
    IF src # <<>> /\ \A i \in 1..Len(src) : src[i] \in IdentBytes
    THEN [ok |-> TRUE, e |-> [src |-> src, filters |-> <<>>], err |-> NoErr]
    ELSE [ok |-> FALSE, e |-> [src |-> <<>>, filters |-> <<>>], err |-> ErrExpr(src)]

\* expr.addFilter
AddFilter(e, name) == [e EXCEPT !.filters = Append(@, name)]

\* a nil *TagHandler, and a TagHandler{Execute, Ignore}
NilHandler == [nil |-> TRUE, Execute |-> "none", Ignore |-> FALSE]
Handler(exec, ignore) == [nil |-> FALSE, Execute |-> exec, Ignore |-> ignore]

\* tag names
NameIf == <<"i", "f">>
NameElse == <<"e", "l", "s", "e">>
NameEndif == <<"e", "n", "d", "i", "f">>
NameNow == <<"n", "o", "w">>

\* the registry Tags: if with its structural markers else and endif (nil handlers),
\* and now, a tag without a body whose handler has an Ignore hook
TagNames == {NameIf, NameElse, NameEndif, NameNow}
Tags ==
    [name \in TagNames |->
        CASE name = NameIf -> Handler("tagIf", FALSE)
          [] name = NameNow -> Handler("tagNow", TRUE)
          [] OTHER -> NilHandler]

(***************************************************************************)
(* Nodes.  One record shape for the three node types; the fields a type    *)
(* does not have keep their zero value.                                    *)
(***************************************************************************)
NoExpr == [src |-> <<>>, filters |-> <<>>]

contentNode(l, c, text) ==
    [kind |-> "content", line |-> l, col |-> c, content |-> text,
     tagname |-> <<>>, tagargs |-> <<>>, taghandler |-> NilHandler, e |-> NoExpr]

filterNode(l, c, text, e) ==
    [kind |-> "filter", line |-> l, col |-> c, content |-> text,
     tagname |-> <<>>, tagargs |-> <<>>, taghandler |-> NilHandler, e |-> e]

tagNode(l, c, text, name, args, handler) ==
    [kind |-> "tag", line |-> l, col |-> c, content |-> text,
     tagname |-> name, tagargs |-> args, taghandler |-> handler, e |-> NoExpr]

(***************************************************************************)
(* The Template's parsing fields as one record t, and the position         *)
(* tracker.                                                                *)
(***************************************************************************)
rawLen == Len(raw)

Tpl == [pos |-> pos, start |-> start, length |-> length, err |-> err,
        line |-> line, col |-> col, nodes |-> nodes]

\* tpl.hasReachedEnd(rel)
hasReachedEnd(t, rel) == t.pos + rel >= rawLen

\* tpl.getChar(rel): the byte, and whether there is one
getChar(t, rel) ==
    IF hasReachedEnd(t, rel) THEN [c |-> "", ok |-> FALSE]
    ELSE [c |-> raw[t.pos + rel + 1], ok |-> TRUE]

\* tpl.updatePosition(): counts the byte at pos into line and col
updatePosition(t) ==
    IF hasReachedEnd(t, 0) THEN [t |-> t, ok |-> FALSE]
    ELSE IF raw[t.pos + 1] = NL
         THEN [t |-> [t EXCEPT !.line = @ + 1, !.col = 0], ok |-> TRUE]
         ELSE [t |-> [t EXCEPT !.col = @ + 1], ok |-> TRUE]

\* a loop of fastForward that counts the byte at pos again without moving on
RECURSIVE fastForwardStay(_, _, _)
fastForwardStay(t, x, rel) ==
    IF x >= rel THEN t
    ELSE LET u == updatePosition(t)
         IN  IF ~u.ok THEN u.t ELSE fastForwardStay(u.t, x + 1, rel)

\* the loop of tpl.fastForward(rel), from iteration x
RECURSIVE fastForwardFrom(_, _, _)
fastForwardFrom(t, x, rel) ==
    IF x >= rel THEN t
    ELSE LET u == updatePosition([t EXCEPT !.pos = @ + 1])
         IN  IF ~u.ok THEN u.t ELSE fastForwardFrom(u.t, x + 1, rel)

\* a fastForward that moves pos by rel at once and counts the byte it lands on only
fastForwardJump(t, rel) == updatePosition([t EXCEPT !.pos = @ + rel]).t

\* tpl.fastForward(rel)
fastForward(t, rel) == fastForwardFrom(t, 0, rel)

(***************************************************************************)
(* The add*Node helpers.  Each returns the Template fields after the call  *)
(* and the error it returns (NoErr for nil).                               *)
(***************************************************************************)
\* addContentNode with a literal cut one byte short
addContentNodeShort(t) ==
    IF t.length = 0 THEN t
    ELSE [t EXCEPT
            !.nodes = Append(@, contentNode(t.line, t.col,
                                    Slice(raw, t.start, t.start + t.length - 1))),
            !.start = t.pos,
            !.length = 0]

\* addContentNode(tpl)
addContentNode(t) ==
    IF t.length = 0 THEN t
    ELSE [t EXCEPT
            !.nodes = Append(@, contentNode(t.line, t.col,
                                    Slice(raw, t.start, t.start + t.length))),
            !.start = t.pos,
            !.length = 0]

\* addFilterNode(tpl); tpl.autosafe is true from newTemplate on
addFilterNode(t) ==
    IF t.length = 0 THEN [t |-> t, err |-> ErrEmptyFilter]
    ELSE LET content == TrimSpace(Slice(raw, t.start, t.start + t.length))
             x == NewExpr(content)
         IN  IF ~x.ok THEN [t |-> t, err |-> x.err]
             ELSE [t |-> [t EXCEPT
                            !.nodes = Append(@, filterNode(t.line, t.col, content,
                                                    AddFilter(x.e, "safe"))),
                            !.start = t.pos,
                            !.length = 0],
                   err |-> NoErr]

\* strings.SplitN(s, " ", 2): s cut at its first space, or s alone
RECURSIVE IndexOfSpace(_, _)
IndexOfSpace(s, i) ==
    IF i > Len(s) THEN 0 ELSE IF s[i] = " " THEN i ELSE IndexOfSpace(s, i + 1)

SplitN2(s) ==
    LET i == IndexOfSpace(s, 1)
    IN  IF i = 0 THEN <<s>> ELSE <<SubSeq(s, 1, i - 1), SubSeq(s, i + 1, Len(s))>>

\* addTagNode(tpl)
addTagNode(t) ==
    IF t.length = 0 THEN [t |-> t, err |-> ErrEmptyTag]
    ELSE LET content == TrimSpace(Slice(raw, t.start, t.start + t.length))
             args == SplitN2(content)
             tagname == args[1]
             tagargs == IF Len(args) = 2 THEN args[2] ELSE <<>>
         IN  IF tagname \notin DOMAIN Tags THEN [t |-> t, err |-> ErrNoTag(tagname)]
             ELSE [t |-> [t EXCEPT
                            !.nodes = Append(@, tagNode(t.line, t.col, content, tagname,
                                                    TrimSpace(tagargs), Tags[tagname])),
                            !.start = t.pos,
                            !.length = 0],
                   err |-> NoErr]

(***************************************************************************)
(* The lexer's state functions: each maps the Template fields to the       *)
(* fields after one call and the state function it returns ("nil" ends     *)
(* the loop of parse).                                                     *)
(***************************************************************************)
Fail(t, e) == [t |-> [t EXCEPT !.err = e], next |-> "nil"]

\* processComment that takes the end of the source for the end of the comment
processCommentLenient(t) ==
    LET c == getChar(t, 0)
        nc == getChar(t, 1)
    IN  IF ~c.ok THEN [t |-> t, next |-> "nil"]
        ELSE IF c.c = "#" /\ ~nc.ok THEN [t |-> t, next |-> "nil"]
        ELSE IF c.c = "#" /\ nc.c = "}"
             THEN LET f == fastForward(t, 2)
                  IN  [t |-> [f EXCEPT !.start = f.pos], next |-> "processContent"]
        ELSE [t |-> fastForward(t, 1), next |-> "processComment"]

\* processComment
processComment(t) ==
    LET c == getChar(t, 0)
        nc == getChar(t, 1)
    IN  IF ~c.ok THEN Fail(t, ErrEndComment)
        ELSE IF c.c = "#" /\ ~nc.ok THEN Fail(t, ErrEndComment)
        ELSE IF c.c = "#" /\ nc.c = "}"
             THEN LET f == fastForward(t, 2)
                  IN  [t |-> [f EXCEPT !.start = f.pos], next |-> "processContent"]
        ELSE [t |-> fastForward(t, 1), next |-> "processComment"]

\* processFilter
processFilter(t) ==
    LET c == getChar(t, 0)
        nc == getChar(t, 1)
    IN  IF ~c.ok THEN Fail(t, ErrEndFilter)
        ELSE IF c.c = "}" /\ ~nc.ok THEN Fail(t, ErrEndFilter)
        ELSE IF c.c = "}" /\ nc.c = "}"
             THEN LET a == addFilterNode(t)
                      f == fastForward(a.t, 2)
                  IN  IF a.err # NoErr THEN Fail(t, a.err)
                      ELSE [t |-> [f EXCEPT !.start = f.pos], next |-> "processContent"]
        ELSE [t |-> fastForward([t EXCEPT !.length = @ + 1], 1), next |-> "processFilter"]

\* processTag
processTag(t) ==
    LET c == getChar(t, 0)
        nc == getChar(t, 1)
    IN  IF ~c.ok THEN Fail(t, ErrEndTag)
        ELSE IF c.c = "%" /\ ~nc.ok THEN Fail(t, ErrEndTag)
        ELSE IF c.c = "%" /\ nc.c = "}"
             THEN LET a == addTagNode(t)
                      f == fastForward(a.t, 2)
                  IN  IF a.err # NoErr THEN Fail(t, a.err)
                      ELSE [t |-> [f EXCEPT !.start = f.pos], next |-> "processContent"]
        ELSE [t |-> fastForward([t EXCEPT !.length = @ + 1], 1), next |-> "processTag"]

\* processContent
processContent(t) ==
    LET c == getChar(t, 0)
        nc == getChar(t, 1)
        f == fastForward(t, 2)
        a == addContentNode(f)
        opened == [a EXCEPT !.start = a.pos]
    IN  IF ~c.ok THEN [t |-> addContentNode(t), next |-> "nil"]
        ELSE IF c.c = "{"
             THEN IF ~nc.ok THEN Fail(t, ErrEndOpen)
                  ELSE CASE nc.c = "#" -> [t |-> opened, next |-> "processComment"]
                         [] nc.c = "%" -> [t |-> opened, next |-> "processTag"]
                         [] nc.c = "{" -> [t |-> opened, next |-> "processFilter"]
                         [] OTHER -> Fail(f, ErrUnknownOpen(nc.c))
        ELSE [t |-> fastForward([t EXCEPT !.length = @ + 1], 1), next |-> "processContent"]

(***************************************************************************)
(* FromString, newTemplate and parse, one action per step of the loop      *)
(* `for state != nil { state = state(tpl) }`.                              *)
(***************************************************************************)
\* the value FromString returns: a Template or an error, once it has returned
NoResult == [done |-> FALSE, tpl |-> FALSE, err |-> NoErr]
ErrParsing(t) == <<"Parsing error", t.line, t.col, t.err>>

SetTpl(t) ==
    /\ pos' = t.pos
    /\ start' = t.start
    /\ length' = t.length
    /\ err' = t.err
    /\ line' = t.line
    /\ col' = t.col
    /\ nodes' = t.nodes

\* the fields newTemplate sets; the others keep their zero value
NewTpl == [pos |-> 0, start |-> 0, length |-> 0, err |-> NoErr,
           line |-> 1, col |-> 0, nodes |-> <<>>]

\* FromString calls newTemplate, which refuses an empty source
newTemplate ==
    /\ state = "FromString"
    /\ IF rawLen = 0
       THEN /\ result' = [done |-> TRUE, tpl |-> FALSE, err |-> ErrNoContent]
            /\ state' = "returned"
            /\ UNCHANGED <<pos, start, length, err, line, col, nodes>>
       ELSE /\ SetTpl(NewTpl)
            /\ state' = "parse"
            /\ UNCHANGED result
    /\ UNCHANGED <<raw, parsed, reparses, steps>>
    /\ UNCHANGED execvars

\* parse, up to its first call of processContent
parse ==
    /\ state = "parse"
    /\ ~parsed
    /\ SetTpl(updatePosition(Tpl).t)
    /\ state' = "processContent"
    /\ UNCHANGED <<raw, parsed, result, reparses, steps>>
    /\ UNCHANGED execvars

\* one call state(tpl) of the loop
RunState(st, t) ==
    CASE st = "processContent" -> processContent(t)
      [] st = "processComment" -> processComment(t)
      [] st = "processFilter" -> processFilter(t)
      [] st = "processTag" -> processTag(t)

LexStep(st) ==
    /\ state = st
    /\ LET r == RunState(st, Tpl)
       IN  /\ SetTpl(r.t)
           /\ state' = r.next
    /\ steps' = steps + 1
    /\ UNCHANGED <<raw, parsed, result, reparses>>
    /\ UNCHANGED execvars

ContentStep == LexStep("processContent")
CommentStep == LexStep("processComment")
FilterStep == LexStep("processFilter")
TagStep == LexStep("processTag")

\* a parse that does not set tpl.parsed
parseReturnForgets ==
    /\ state = "nil"
    /\ IF err # NoErr
       THEN result' = [done |-> TRUE, tpl |-> FALSE, err |-> ErrParsing(Tpl)]
       ELSE result' = [done |-> TRUE, tpl |-> TRUE, err |-> NoErr]
    /\ state' = "returned"
    /\ UNCHANGED <<raw, pos, start, length, err, line, col, nodes, parsed, reparses,
                   steps>>
    /\ UNCHANGED execvars

\* a parse that does not look at tpl.err
parseReturnIgnoresErr ==
    /\ state = "nil"
    /\ parsed' = TRUE
    /\ result' = [done |-> TRUE, tpl |-> TRUE, err |-> NoErr]
    /\ state' = "returned"
    /\ UNCHANGED <<raw, pos, start, length, err, line, col, nodes, reparses, steps>>
    /\ UNCHANGED execvars

\* the end of parse and the return of FromString
parseReturn ==
    /\ state = "nil"
    /\ IF err # NoErr
       THEN /\ result' = [done |-> TRUE, tpl |-> FALSE, err |-> ErrParsing(Tpl)]
            /\ UNCHANGED parsed
       ELSE /\ parsed' = TRUE
            /\ result' = [done |-> TRUE, tpl |-> TRUE, err |-> NoErr]
    /\ state' = "returned"
    /\ UNCHANGED <<raw, pos, start, length, err, line, col, nodes, reparses, steps>>
    /\ UNCHANGED execvars

\* parse called on the Template FromString returned: it returns nil at once when
\* tpl.parsed is set, and lexes from where the Template is otherwise; reparses
\* records what the call returned at once ("nil"), or that it went on ("lexing")
parseAgain ==
    /\ state = "returned"
    /\ result.tpl
    /\ Len(reparses) < MaxReparses
    /\ IF parsed
       THEN /\ reparses' = Append(reparses, "nil")
            /\ UNCHANGED <<pos, start, length, err, line, col, nodes, state>>
       ELSE /\ reparses' = Append(reparses, "lexing")
            /\ SetTpl(updatePosition(Tpl).t)
            /\ state' = "processContent"
    /\ UNCHANGED <<raw, parsed, result, steps>>
    /\ UNCHANGED execvars

(***************************************************************************)
(* Execution state.                                                        *)
(***************************************************************************)
Calls == 1..MaxCalls

\* a *string: nil, or a string
NilStr == [nil |-> TRUE, s |-> <<>>]
Str(s) == [nil |-> FALSE, s |-> s]

\* arg: what the caller passed for ctx, a pointer to its Context ("given") or an absent one
NoRet == [done |-> FALSE, panic |-> FALSE, out |-> NilStr, err |-> NoErr,
          ctx |-> "", from |-> 0, arg |-> "given"]

NoUntil == [fn |-> "", call |-> 0, names |-> <<>>, from |-> -1, mark |-> 0,
            tn |-> -1, e |-> NoErr, got |-> <<>>, nilgot |-> TRUE, at |-> -1, end |-> 0]

InitExec ==
    /\ node_pos = 0
    /\ ncalls = 0
    /\ stack = [c \in Calls |-> <<>>]
    /\ rets = [c \in Calls |-> NoRet]
    /\ log = <<>>
    /\ overlap = FALSE
    /\ lastUntil = NoUntil

(***************************************************************************)
(* Execution errors, and the external evaluator.  A Context is modelled by *)
(* what it makes of the variable a: "t" binds it to a true value, "f" to a *)
(* false one, and under "e" its evaluation fails.                          *)
(***************************************************************************)
Contexts == {"t", "f", "e"}

ErrUnhandled(name) == <<"Unhandled placeholder", name>>
ErrExecute(n, e) == <<"Error", n.line, n.col, n.content, e>>
ErrBlock(n, e) == <<"Error in block-execution", n.line, n.col, n.content, e>>
ErrNoEndNode(names) == <<"No end-node", names>>
ErrEval(src) == <<"Evaluation failed", src>>

\* expr.evalString(ctx): the value of the expression as a string, or an error
evalString(e, ctx) ==
    IF ctx = "e" THEN [str |-> NilStr, e |-> ErrEval(e.src)]
    ELSE [str |-> Str(<<"<", ctx>> \o e.src \o <<">">>), e |-> NoErr]

\* the condition of an if: its value, or an error for a malformed or failing one
evalCond(args, ctx) ==
    IF args # <<"a">> \/ ctx = "e" THEN [v |-> FALSE, e |-> ErrEval(args)]
    ELSE [v |-> ctx = "t", e |-> NoErr]

\* the Execute of the tag "now", which has no body
tagNow(args, ctx) == [str |-> Str(<<"N">> \o args), e |-> NoErr]

\* strings.Join(renderedStrings, "")
Join(strs) == Flatten(strs)

(***************************************************************************)
(* node.execute for the nodes that do not call back into the Template.     *)
(***************************************************************************)
\* contentNode.execute
contentExecute(n, ctx) == [str |-> Str(n.content), e |-> NoErr]

\* filterNode.execute
filterExecute(n, ctx) == evalString(n.e, ctx)

\* a tagNode.execute that renders a tag with a nil handler as empty text
tagExecuteEmpty(n, ctx) ==
    IF n.taghandler.nil THEN [str |-> Str(<<>>), e |-> NoErr]
    ELSE tagNow(n.tagargs, ctx)

\* tagNode.execute, for a nil handler and for a handler without a body
tagExecute(n, ctx) ==
    IF n.taghandler.nil THEN [str |-> NilStr, e |-> ErrUnhandled(n.tagname)]
    ELSE tagNow(n.tagargs, ctx)

\* whether node.execute pushes a handler that uses the cursor
CallsBack(n) == n.kind = "tag" /\ ~n.taghandler.nil /\ n.taghandler.Execute = "tagIf"

nodeExecute(n, ctx) ==
    CASE n.kind = "content" -> contentExecute(n, ctx)
      [] n.kind = "filter" -> filterExecute(n, ctx)
      [] n.kind = "tag" -> tagExecute(n, ctx)

(***************************************************************************)
(* Call stacks.  A frame is one activation of Execute,                     *)
(* executeUntilAnyTagNode, ignoreUntilAnyTagNode or the handler tagIf.     *)
(***************************************************************************)
\* fn, pc: the function and where it is; names: nodenames; rendered: renderedStrings;
\* node: index of the local `node` (of the tag node, for a handler); str, e, tn, got:
\* what the last call made by this frame returned (string, error, stop node, strings).
\* History: from, mark: the cursor and the length of the log when the call was made
Frame(fn, pc, names, node) ==
    [fn |-> fn, pc |-> pc, names |-> names, rendered |-> <<>>, node |-> node,
     str |-> NilStr, e |-> NoErr, tn |-> -1, got |-> <<>>,
     from |-> node_pos, mark |-> Len(log)]

\* a returned value
Val(str, e, tn, got) == [str |-> str, e |-> e, tn |-> tn, got |-> got]

InFlight(c) == stack[c] # <<>>
Top(c) == stack[c][Len(stack[c])]
At(c, fn, pc) == InFlight(c) /\ Top(c).fn = fn /\ Top(c).pc = pc
Ctx(c) == rets[c].ctx

\* the stacks after the top frame of c is replaced by f
WithTop(c, f) == [stack EXCEPT ![c][Len(stack[c])] = f]

\* the stacks after the top frame of c is replaced by f and calls g
WithCall(c, f, g) == [stack EXCEPT ![c] = Append(SubSeq(@, 1, Len(@) - 1), f) \o <<g>>]

\* the top frame of c returns v: to its caller's frame, or, from Execute, to the caller
\* of the Template
Return(c, v) ==
    LET s == stack[c]
        n == Len(s)
    IN  IF n = 1
        THEN /\ stack' = [stack EXCEPT ![c] = <<>>]
             /\ rets' = [rets EXCEPT ![c].done = TRUE, ![c].out = v.str, ![c].err = v.e]
        ELSE /\ stack' = [stack EXCEPT ![c] =
                            Append(SubSeq(s, 1, n - 2),
                                   [s[n - 1] EXCEPT !.str = v.str, !.e = v.e,
                                                    !.tn = v.tn, !.got = v.got])]
             /\ UNCHANGED rets

Event(c, i, ev, args) == [call |-> c, node |-> i, ev |-> ev, args |-> args]

IsStop(n, names) == n.kind = "tag" /\ \E i \in 1..Len(names) : n.tagname = names[i]

(***************************************************************************)
(* Template.Execute.                                                       *)
(***************************************************************************)
\* a call of Execute(ctx), the c-th made on the Template
ExecuteEnter(c, ctx) ==
    /\ result.tpl
    /\ c \in Calls
    /\ c = ncalls + 1
    /\ ncalls' = c
    /\ overlap' = (overlap \/ \E d \in Calls : InFlight(d))
    /\ stack' = [stack EXCEPT ![c] = <<Frame("Execute", "loop", <<>>, -1)>>]
    /\ rets' = [rets EXCEPT ![c].ctx = ctx, ![c].from = node_pos]
    /\ UNCHANGED <<node_pos, log>>
    /\ UNCHANGED lexvars
    /\ UNCHANGED lastUntil

\* the empty Context, &Context{}: it binds nothing, and evaluation under it does not fail
EmptyCtx == "0"

\* a call of Execute with an absent context: a nil *Context, on which `*ctx == nil`
\* dereferences nil, or a pointer to a nil Context, for which &Context{} is substituted
ExecuteAbsent(c, arg) ==
    /\ result.tpl
    /\ c \in Calls
    /\ c = ncalls + 1
    /\ \A d \in Calls : ~InFlight(d)
    /\ arg \in {"nilptr", "nilmap"}
    /\ ncalls' = c
    /\ IF arg = "nilptr"
       THEN /\ rets' = [rets EXCEPT ![c].arg = arg, ![c].from = node_pos,
                                    ![c].done = TRUE, ![c].panic = TRUE]
            /\ UNCHANGED stack
       ELSE /\ rets' = [rets EXCEPT ![c].arg = arg, ![c].from = node_pos,
                                    ![c].ctx = EmptyCtx]
            /\ stack' = [stack EXCEPT ![c] = <<Frame("Execute", "loop", <<>>, -1)>>]
    /\ UNCHANGED <<node_pos, log, overlap>>
    /\ UNCHANGED lexvars
    /\ UNCHANGED lastUntil

\* the callers of the model render a Template again with the context of its first call
SameCtx(ctx) == ncalls = 0 \/ ctx = rets[1].ctx

\* a caller that keeps to one Execute in flight
ExecuteCall ==
    /\ \A d \in Calls : ~InFlight(d)
    /\ \E ctx \in Contexts : SameCtx(ctx) /\ ExecuteEnter(ncalls + 1, ctx)

\* a caller that does not
ExecuteCallAnytime == \E ctx \in Contexts : SameCtx(ctx) /\ ExecuteEnter(ncalls + 1, ctx)

\* a loop condition that lets the cursor reach the length of the node list
ExecuteLoopCondLoose(c) == node_pos <= Len(nodes)

\* the loop condition, and the return after the loop
ExecuteLoopCond(c) == node_pos < Len(nodes)

ExecuteLoop(c) ==
    /\ At(c, "Execute", "loop")
    /\ IF ExecuteLoopCond(c)
       THEN /\ stack' = WithTop(c, [Top(c) EXCEPT !.pc = "exec"])
            /\ UNCHANGED rets
       ELSE Return(c, Val(Str(Join(Top(c).rendered)), NoErr, -1, <<>>))
    /\ UNCHANGED <<node_pos, ncalls, log, overlap>>
    /\ UNCHANGED lexvars
    /\ UNCHANGED lastUntil

\* node := tpl.nodes[tpl.node_pos]; node.execute(tpl, ctx), in Execute and in
\* executeUntilAnyTagNode, for a node that does not call back
NodeCall(c) ==
    /\ InFlight(c)
    /\ Top(c).pc = "exec"
    /\ node_pos < Len(nodes)
    /\ LET n == nodes[node_pos + 1]
           r == nodeExecute(n, Ctx(c))
       IN  /\ ~CallsBack(n)
           /\ stack' = WithTop(c, [Top(c) EXCEPT !.pc = "ret", !.node = node_pos,
                                                !.str = r.str, !.e = r.e])
    /\ log' = Append(log, Event(c, node_pos, "execute", <<>>))
    /\ UNCHANGED <<node_pos, ncalls, rets, overlap>>
    /\ UNCHANGED lexvars
    /\ UNCHANGED lastUntil

\* the same for a tag node whose handler uses the cursor: tagNode.execute calls
\* tn.taghandler.Execute(&tn.tagargs, tpl, ctx)
HandlerCall(c) ==
    /\ InFlight(c)
    /\ Top(c).pc = "exec"
    /\ node_pos < Len(nodes)
    /\ CallsBack(nodes[node_pos + 1])
    /\ stack' = WithCall(c, [Top(c) EXCEPT !.pc = "ret", !.node = node_pos],
                         Frame("tagIf", "start", <<>>, node_pos))
    /\ log' = Append(log, Event(c, node_pos, "execute", <<>>))
    /\ UNCHANGED <<node_pos, ncalls, rets, overlap>>
    /\ UNCHANGED lexvars
    /\ UNCHANGED lastUntil

\* tpl.nodes[tpl.node_pos] with the cursor at or past the end: index out of range
ReadPanic(c) ==
    /\ InFlight(c)
    /\ Top(c).pc = "exec"
    /\ node_pos >= Len(nodes)
    /\ stack' = [stack EXCEPT ![c] = <<>>]
    /\ rets' = [rets EXCEPT ![c].done = TRUE, ![c].panic = TRUE]
    /\ UNCHANGED <<node_pos, ncalls, log, overlap>>
    /\ UNCHANGED lexvars
    /\ UNCHANGED lastUntil

\* an Execute that returns what it has rendered along with the error
ExecuteResultPartial(c) ==
    /\ At(c, "Execute", "ret")
    /\ LET f == Top(c)
       IN  IF f.e # NoErr
           THEN /\ Return(c, Val(Str(Join(f.rendered)),
                                 ErrExecute(nodes[f.node + 1], f.e), -1, <<>>))
                /\ log' = Append(log, Event(c, f.node, "error", <<>>))
                /\ UNCHANGED node_pos
           ELSE /\ stack' = WithTop(c, [f EXCEPT !.pc = "loop",
                                                !.rendered = Append(@, f.str.s)])
                /\ node_pos' = node_pos + 1
                /\ UNCHANGED <<rets, log>>
    /\ UNCHANGED <<ncalls, overlap>>
    /\ UNCHANGED lexvars
    /\ UNCHANGED lastUntil

\* what Execute does with what node.execute returned
ExecuteResult(c) ==
    /\ At(c, "Execute", "ret")
    /\ LET f == Top(c)
       IN  IF f.e # NoErr
           THEN /\ Return(c, Val(NilStr, ErrExecute(nodes[f.node + 1], f.e), -1, <<>>))
                /\ log' = Append(log, Event(c, f.node, "error", <<>>))
                /\ UNCHANGED node_pos
           ELSE /\ stack' = WithTop(c, [f EXCEPT !.pc = "loop",
                                                !.rendered = Append(@, f.str.s)])
                /\ node_pos' = node_pos + 1
                /\ UNCHANGED <<rets, log>>
    /\ UNCHANGED <<ncalls, overlap>>
    /\ UNCHANGED lexvars
    /\ UNCHANGED lastUntil

(***************************************************************************)
(* Template.executeUntilAnyTagNode and Template.ignoreUntilAnyTagNode.     *)
(* The call itself, with the tpl.node_pos++ both start with, is part of    *)
(* the caller's step.                                                      *)
(***************************************************************************)
\* a return of executeUntilAnyTagNode or ignoreUntilAnyTagNode; nilgot: the *[]string
\* returned is nil
UntilReturn(c, v, nilgot) ==
    /\ Return(c, v)
    /\ lastUntil' = [fn |-> Top(c).fn, call |-> c, names |-> Top(c).names,
                     from |-> Top(c).from, mark |-> Top(c).mark,
                     tn |-> v.tn, e |-> v.e, got |-> v.got, nilgot |-> nilgot,
                     at |-> node_pos, end |-> Len(log)]

\* an executeUntilAnyTagNode that returns what it has rendered when it finds no end-node
UntilLoopPartial(c) ==
    /\ At(c, "executeUntilAnyTagNode", "loop")
    /\ LET f == Top(c)
       IN  IF node_pos < Len(nodes)
           THEN IF IsStop(nodes[node_pos + 1], f.names)
                THEN UntilReturn(c, Val(NilStr, NoErr, node_pos, f.rendered), FALSE)
                ELSE /\ stack' = WithTop(c, [f EXCEPT !.pc = "exec"])
                     /\ UNCHANGED <<rets, lastUntil>>
           ELSE UntilReturn(c, Val(NilStr, ErrNoEndNode(f.names), -1, f.rendered), FALSE)
    /\ UNCHANGED <<node_pos, ncalls, log, overlap>>
    /\ UNCHANGED lexvars

\* executeUntilAnyTagNode from its loop on: the end-node test, and the return after the loop
UntilLoop(c) ==
    /\ At(c, "executeUntilAnyTagNode", "loop")
    /\ LET f == Top(c)
       IN  IF node_pos < Len(nodes)
           THEN IF IsStop(nodes[node_pos + 1], f.names)
                THEN UntilReturn(c, Val(NilStr, NoErr, node_pos, f.rendered), FALSE)
                ELSE /\ stack' = WithTop(c, [f EXCEPT !.pc = "exec"])
                     /\ UNCHANGED <<rets, lastUntil>>
           ELSE UntilReturn(c, Val(NilStr, ErrNoEndNode(f.names), -1, <<>>), TRUE)
    /\ UNCHANGED <<node_pos, ncalls, log, overlap>>
    /\ UNCHANGED lexvars

\* what executeUntilAnyTagNode does with what node.execute returned
UntilResult(c) ==
    /\ At(c, "executeUntilAnyTagNode", "ret")
    /\ LET f == Top(c)
       IN  IF f.e # NoErr
           THEN /\ UntilReturn(c, Val(NilStr, ErrBlock(nodes[f.node + 1], f.e), -1, <<>>),
                               TRUE)
                /\ log' = Append(log, Event(c, f.node, "error", <<>>))
                /\ UNCHANGED node_pos
           ELSE /\ stack' = WithTop(c, [f EXCEPT !.pc = "loop",
                                                !.rendered = Append(@, f.str.s)])
                /\ node_pos' = node_pos + 1
                /\ UNCHANGED <<rets, log, lastUntil>>
    /\ UNCHANGED <<ncalls, overlap>>
    /\ UNCHANGED lexvars

\* a test that takes every handler to have an Ignore hook
HookedAlways(n) == n.kind = "tag" /\ ~n.taghandler.nil

\* whether ignoreUntilAnyTagNode calls the Ignore hook of a node it passes
Hooked(n) == n.kind = "tag" /\ ~n.taghandler.nil /\ n.taghandler.Ignore

\* an ignoreUntilAnyTagNode that evaluates the condition of the if tags it passes
IgnoreLoopEval(c) ==
    /\ At(c, "ignoreUntilAnyTagNode", "loop")
    /\ LET f == Top(c)
           n == nodes[node_pos + 1]
       IN  IF node_pos < Len(nodes)
           THEN IF IsStop(n, f.names)
                THEN /\ UntilReturn(c, Val(NilStr, NoErr, node_pos, <<>>), TRUE)
                     /\ UNCHANGED <<node_pos, log>>
                ELSE IF CallsBack(n) /\ evalCond(n.tagargs, Ctx(c)).e # NoErr
                THEN /\ UntilReturn(c, Val(NilStr, evalCond(n.tagargs, Ctx(c)).e, -1, <<>>),
                                    TRUE)
                     /\ UNCHANGED <<node_pos, log>>
                ELSE /\ log' = IF Hooked(n)
                               THEN Append(log, Event(c, node_pos, "Ignore", n.tagargs))
                               ELSE log
                     /\ node_pos' = node_pos + 1
                     /\ UNCHANGED <<stack, rets, lastUntil>>
           ELSE /\ UntilReturn(c, Val(NilStr, ErrNoEndNode(f.names), -1, <<>>), TRUE)
                /\ UNCHANGED <<node_pos, log>>
    /\ UNCHANGED <<ncalls, overlap>>
    /\ UNCHANGED lexvars

\* an ignoreUntilAnyTagNode that steps over a nested if up to its endif
IgnoreLoopNested(c) ==
    /\ At(c, "ignoreUntilAnyTagNode", "loop")
    /\ LET f == Top(c)
           n == nodes[node_pos + 1]
           closers == {k \in (node_pos + 1)..(Len(nodes) - 1) :
                            nodes[k + 1].kind = "tag" /\ nodes[k + 1].tagname = NameEndif}
       IN  IF node_pos < Len(nodes)
           THEN IF IsStop(n, f.names)
                THEN /\ UntilReturn(c, Val(NilStr, NoErr, node_pos, <<>>), TRUE)
                     /\ UNCHANGED <<node_pos, log>>
                ELSE /\ log' = IF Hooked(n)
                               THEN Append(log, Event(c, node_pos, "Ignore", n.tagargs))
                               ELSE log
                     /\ node_pos' = IF CallsBack(n) /\ closers # {}
                                    THEN 1 + CHOOSE k \in closers : \A j \in closers : k <= j
                                    ELSE node_pos + 1
                     /\ UNCHANGED <<stack, rets, lastUntil>>
           ELSE /\ UntilReturn(c, Val(NilStr, ErrNoEndNode(f.names), -1, <<>>), TRUE)
                /\ UNCHANGED <<node_pos, log>>
    /\ UNCHANGED <<ncalls, overlap>>
    /\ UNCHANGED lexvars

\* ignoreUntilAnyTagNode from its loop on
IgnoreLoop(c) ==
    /\ At(c, "ignoreUntilAnyTagNode", "loop")
    /\ LET f == Top(c)
           n == nodes[node_pos + 1]
       IN  IF node_pos < Len(nodes)
           THEN IF IsStop(n, f.names)
                THEN /\ UntilReturn(c, Val(NilStr, NoErr, node_pos, <<>>), TRUE)
                     /\ UNCHANGED <<node_pos, log>>
                ELSE /\ log' = IF Hooked(n)
                               THEN Append(log, Event(c, node_pos, "Ignore", n.tagargs))
                               ELSE log
                     /\ node_pos' = node_pos + 1
                     /\ UNCHANGED <<stack, rets, lastUntil>>
           ELSE /\ UntilReturn(c, Val(NilStr, ErrNoEndNode(f.names), -1, <<>>), TRUE)
                /\ UNCHANGED <<node_pos, log>>
    /\ UNCHANGED <<ncalls, overlap>>
    /\ UNCHANGED lexvars

(***************************************************************************)
(* The handler of the tag if, which renders one of its branches with       *)
(* executeUntilAnyTagNode and passes the other with ignoreUntilAnyTagNode. *)
(***************************************************************************)
\* an executeUntilAnyTagNode that does not step over the node of its caller
CallUntilInPlace(c, f, names) ==
    /\ stack' = WithCall(c, f, Frame("executeUntilAnyTagNode", "loop", names, -1))
    /\ UNCHANGED node_pos
    /\ UNCHANGED rets

CallUntil(c, f, names) ==
    /\ stack' = WithCall(c, f, Frame("executeUntilAnyTagNode", "loop", names, -1))
    /\ node_pos' = node_pos + 1
    /\ UNCHANGED rets

\* an ignoreUntilAnyTagNode that does not step over the node of its caller
CallIgnoreInPlace(c, f, names) ==
    /\ stack' = WithCall(c, f, Frame("ignoreUntilAnyTagNode", "loop", names, -1))
    /\ UNCHANGED node_pos
    /\ UNCHANGED rets

CallIgnore(c, f, names) ==
    /\ stack' = WithCall(c, f, Frame("ignoreUntilAnyTagNode", "loop", names, -1))
    /\ node_pos' = node_pos + 1
    /\ UNCHANGED rets

ReturnOnly(c, v) == Return(c, v) /\ UNCHANGED node_pos

\* the condition is evaluated and the first branch rendered or passed
tagIfStart(c) ==
    /\ At(c, "tagIf", "start")
    /\ LET f == Top(c)
           cond == evalCond(nodes[f.node + 1].tagargs, Ctx(c))
       IN  IF cond.e # NoErr THEN ReturnOnly(c, Val(NilStr, cond.e, -1, <<>>))
           ELSE IF cond.v THEN CallUntil(c, [f EXCEPT !.pc = "then"], <<NameElse, NameEndif>>)
           ELSE CallIgnore(c, [f EXCEPT !.pc = "skipped"], <<NameElse, NameEndif>>)
    /\ UNCHANGED <<ncalls, log, overlap>>
    /\ UNCHANGED lexvars
    /\ UNCHANGED lastUntil

\* the first branch was rendered: an else branch is passed
tagIfThen(c) ==
    /\ At(c, "tagIf", "then")
    /\ LET f == Top(c)
       IN  IF f.e # NoErr THEN ReturnOnly(c, Val(NilStr, f.e, -1, <<>>))
           ELSE IF nodes[f.tn + 1].tagname = NameElse
                THEN CallIgnore(c, [f EXCEPT !.pc = "thenSkip", !.rendered = f.got],
                                <<NameEndif>>)
           ELSE ReturnOnly(c, Val(Str(Join(f.got)), NoErr, -1, <<>>))
    /\ UNCHANGED <<ncalls, log, overlap>>
    /\ UNCHANGED lexvars
    /\ UNCHANGED lastUntil

tagIfThenSkip(c) ==
    /\ At(c, "tagIf", "thenSkip")
    /\ LET f == Top(c)
       IN  IF f.e # NoErr THEN ReturnOnly(c, Val(NilStr, f.e, -1, <<>>))
           ELSE ReturnOnly(c, Val(Str(Join(f.rendered)), NoErr, -1, <<>>))
    /\ UNCHANGED <<ncalls, log, overlap>>
    /\ UNCHANGED lexvars
    /\ UNCHANGED lastUntil

\* the first branch was passed: an else branch is rendered
tagIfSkipped(c) ==
    /\ At(c, "tagIf", "skipped")
    /\ LET f == Top(c)
       IN  IF f.e # NoErr THEN ReturnOnly(c, Val(NilStr, f.e, -1, <<>>))
           ELSE IF nodes[f.tn + 1].tagname = NameElse
                THEN CallUntil(c, [f EXCEPT !.pc = "else"], <<NameEndif>>)
           ELSE ReturnOnly(c, Val(Str(<<>>), NoErr, -1, <<>>))
    /\ UNCHANGED <<ncalls, log, overlap>>
    /\ UNCHANGED lexvars
    /\ UNCHANGED lastUntil

tagIfElse(c) ==
    /\ At(c, "tagIf", "else")
    /\ LET f == Top(c)
       IN  IF f.e # NoErr THEN ReturnOnly(c, Val(NilStr, f.e, -1, <<>>))
           ELSE ReturnOnly(c, Val(Str(Join(f.got)), NoErr, -1, <<>>))
    /\ UNCHANGED <<ncalls, log, overlap>>
    /\ UNCHANGED lexvars
    /\ UNCHANGED lastUntil

(***************************************************************************)
(* Sources.                                                                *)
(***************************************************************************)
\* every string of at most n chunks
SourcesOf(chunks, n) == {Flatten(s) : s \in UNION {[1..k -> chunks] : k \in 0..n}}

\* chunks of bytes: a byte, a two-byte delimiter, white space, a short region
ByteChunks ==
    {<<"{">>, <<"}">>, <<"#">>, <<"%">>, <<" ">>, <<NL>>, <<"a">>,
     <<"{", "{">>, <<"}", "}">>, <<"{", "#">>, <<"#", "}">>, <<"{", "%">>, <<"%", "}">>,
     <<" ", NL>>, <<"{", "{", " ", "a", "}", "}">>, <<"{", "#", "a", "#", "}">>}

ByteSources == SourcesOf(ByteChunks, MaxChunks)

\* a tag region
Tag(name, args) ==
    <<"{", "%">> \o name \o (IF args = <<>> THEN <<>> ELSE <<" ">> \o args) \o <<"%", "}">>

\* regions: literal text and the tags if (with a condition, and with a malformed one),
\* else, endif and now
Regions ==
    {<<"a">>,
     Tag(NameIf, <<"a">>),
     Tag(NameIf, <<"{">>),
     Tag(NameElse, <<>>),
     Tag(NameEndif, <<>>),
     Tag(NameNow, <<"a">>)}

\* every source of at most MaxRegions regions, and each of them as the body of an if
RegionSources ==
    LET base == SourcesOf(Regions, MaxRegions)
    IN  base \cup {Tag(NameIf, <<"a">>) \o s \o Tag(NameEndif, <<>>) : s \in base}

\* sources without tags, for overlapping calls
ConcRegions == {<<"a">>, <<"{", "{", "a", "}", "}">>, <<"{", "#", "#", "}">>}
ConcSources == SourcesOf(ConcRegions, MaxConcRegions)

\* sources of one tag region: words and white space between {% and %}
TagPieces == {NameIf, NameNow, <<"a">>, <<" ">>, <<NL>>, <<"\t">>}
TagSources == {<<"{", "%">> \o s \o <<"%", "}">> : s \in SourcesOf(TagPieces, MaxPieces)}

(***************************************************************************)
(* Specifications.                                                         *)
(***************************************************************************)
\* FromString is called on a source of S
InitOn(S) ==
    /\ raw \in S
    /\ pos = 0 /\ start = 0 /\ length = 0 /\ err = NoErr /\ line = 0 /\ col = 0
    /\ nodes = <<>>
    /\ parsed = FALSE
    /\ state = "FromString"
    /\ result = NoResult
    /\ reparses = <<>>
    /\ steps = 0
    /\ InitExec

NextLex ==
    \/ newTemplate
    \/ parse
    \/ ContentStep
    \/ CommentStep
    \/ FilterStep
    \/ TagStep
    \/ parseReturn

NextExec ==
    \/ ExecuteCall
    \/ \E c \in Calls :
        \/ ExecuteLoop(c)
        \/ NodeCall(c)
        \/ HandlerCall(c)
        \/ ExecuteResult(c)
        \/ UntilLoop(c)
        \/ UntilResult(c)
        \/ IgnoreLoop(c)
        \/ tagIfStart(c)
        \/ tagIfThen(c)
        \/ tagIfThenSkip(c)
        \/ tagIfSkipped(c)
        \/ tagIfElse(c)

\* FromString on a source, then Execute calls on the Template, one at a time
Init == InitOn(ByteSources \cup RegionSources)
Next == NextLex \/ NextExec
Spec == Init /\ [][Next]_vars

\* FromString on a source without tags, then Execute calls that may overlap
InitConc == InitOn(ConcSources)

NextConc ==
    \/ NextLex
    \/ ExecuteCallAnytime
    \/ \E c \in Calls :
        \/ ExecuteLoop(c)
        \/ NodeCall(c)
        \/ ReadPanic(c)
        \/ ExecuteResult(c)

SpecConc == InitConc /\ [][NextConc]_vars

\* FromString on a source, then parse called again on the Template
InitParse == InitOn(ByteSources)
NextParse == NextLex \/ parseAgain
SpecParse == InitParse /\ [][NextParse]_vars

\* FromString on a source without tags, then Execute calls with an absent context
NextAbsent ==
    \/ NextLex
    \/ \E arg \in {"nilptr", "nilmap"} : ExecuteAbsent(ncalls + 1, arg)
    \/ \E c \in Calls :
        \/ ExecuteLoop(c)
        \/ NodeCall(c)
        \/ ExecuteResult(c)

SpecAbsent == InitConc /\ [][NextAbsent]_vars

\* FromString on a source of one tag region
InitTag == InitOn(TagSources)
SpecTag == InitTag /\ [][NextLex]_vars

(***************************************************************************)
(* Properties.  References used by them are computed from the source text  *)
(* or the node list alone, not by the lexer or the engine.                 *)
(***************************************************************************)
Kinds == {nodes[k].kind : k \in 1..Len(nodes)}

\* the index (from 1) of the first two-byte closer b} at or after i, or 0
RECURSIVE CloserFrom(_, _)
CloserFrom(i, b) ==
    IF i + 1 > Len(raw) THEN 0
    ELSE IF raw[i] = b /\ raw[i + 1] = "}" THEN i
    ELSE CloserFrom(i + 1, b)

\* the source from index i on, with each {{...}} region replaced by the value of its
\* expression under ctx and each {#...#} region removed
RECURSIVE Rendering(_, _)
Rendering(i, ctx) ==
    IF i > Len(raw) THEN <<>>
    ELSE IF i < Len(raw) /\ raw[i] = "{" /\ raw[i + 1] \in {"{", "#"}
         THEN LET j == CloserFrom(i + 2, IF raw[i + 1] = "{" THEN "}" ELSE "#")
                  value == IF raw[i + 1] = "#" THEN <<>>
                           ELSE evalString(NewExpr(TrimSpace(SubSeq(raw, i + 2, j - 1))).e,
                                           ctx).str.s
              IN  IF j = 0 THEN <<>> ELSE value \o Rendering(j + 2, ctx)
    ELSE <<raw[i]>> \o Rendering(i + 1, ctx)

\* C1: for a source that parses and has no tag region, Execute on the parsed Template
\* (cursor at the first node) returns the source with each {{...}} region replaced by
\* the value of its expression, each {#...#} region removed and every other byte kept
\* in order; it returns an error only when the evaluation of an expression fails.
C1_TaglessRender ==
    (result.tpl /\ "tag" \notin Kinds) =>
        \A c \in Calls :
            (rets[c].done /\ rets[c].from = 0) =>
                IF rets[c].ctx = "e" /\ "filter" \in Kinds
                THEN rets[c].err # NoErr
                ELSE /\ rets[c].err = NoErr
                     /\ rets[c].out = Str(Rendering(1, rets[c].ctx))

\* a returned render of literal text, a filter region and a comment region
C1_Witness ==
    /\ rets[1].done /\ rets[1].err = NoErr
    /\ Kinds = {"content", "filter"}
    /\ \E i \in 1..(Len(raw) - 1) : raw[i] = "{" /\ raw[i + 1] = "#"
    /\ rets[1].out = Str(Rendering(1, rets[1].ctx))
    /\ rets[1].out.s # raw

\* C2: every Execute call made after an earlier one has returned renders the node list
\* from the first node and, for the same context, returns what the first call returned.
C2_Reexecute ==
    \A c \in Calls :
        c > 1 =>
            /\ c <= ncalls => rets[c].from = 0
            /\ rets[c].done => (rets[c].out = rets[1].out /\ rets[c].err = rets[1].err)

\* the names of a stop set
NameSet(names) == {names[i] : i \in 1..Len(names)}

\* the indexes (from 0) of the tag nodes after index from whose name is in the stop set
StopsAfter(from, names) ==
    {k \in (from + 1)..(Len(nodes) - 1) :
        nodes[k + 1].kind = "tag" /\ nodes[k + 1].tagname \in NameSet(names)}

\* the last call of executeUntilAnyTagNode that returned was made with no stop tag
\* after the cursor
UntilWithoutStop ==
    /\ lastUntil.fn = "executeUntilAnyTagNode"
    /\ StopsAfter(lastUntil.from, lastUntil.names) = {}

\* executeUntilAnyTagNode is never stuck: while it is the running function of a call,
\* a step of it is enabled and the cursor is within the node list or at its end
UntilProgress ==
    \A c \in Calls :
        (InFlight(c) /\ Top(c).fn = "executeUntilAnyTagNode") =>
            /\ node_pos <= Len(nodes)
            /\ ENABLED (UntilLoop(c) \/ NodeCall(c) \/ HandlerCall(c) \/ UntilResult(c))

\* C3 as stated: executeUntilAnyTagNode called with no stop tag after the cursor
\* terminates and returns the "No end-node" error, no stop node and no output.
C3_NoEndNode ==
    /\ UntilProgress
    /\ UntilWithoutStop =>
        /\ lastUntil.e = ErrNoEndNode(lastUntil.names)
        /\ lastUntil.tn = -1
        /\ lastUntil.nilgot /\ lastUntil.got = <<>>

\* C3: executeUntilAnyTagNode called with no stop tag after the cursor terminates and
\* returns an error, no stop node and no output; the error is "No end-node" unless a
\* node after the cursor fails to render, and then it is the block-execution error of
\* that node.
C3_NoStopError ==
    /\ UntilProgress
    /\ UntilWithoutStop =>
        /\ lastUntil.tn = -1
        /\ lastUntil.nilgot /\ lastUntil.got = <<>>
        /\ \/ lastUntil.e = ErrNoEndNode(lastUntil.names)
           \/ \E k \in (lastUntil.from + 1)..(Len(nodes) - 1) :
                \E inner \in {lastUntil.e[5]} :
                    /\ inner # NoErr
                    /\ lastUntil.e = ErrBlock(nodes[k + 1], inner)

\* a call with no stop tag after the cursor that returned the error of a failing node
C3_Witness ==
    /\ UntilWithoutStop
    /\ lastUntil.e # ErrNoEndNode(lastUntil.names)
    /\ lastUntil.e[1] = "Error in block-execution"

\* C4: ignoreUntilAnyTagNode executes no node it passes (the only calls it makes are
\* Ignore hooks) and returns the first tag node after the cursor whose name is in the
\* stop set, whatever the arguments of the tags in between; without such a node it
\* returns the "No end-node" error.
C4_IgnoreSkips ==
    /\ \A c \in Calls :
        (InFlight(c) /\ Top(c).fn = "ignoreUntilAnyTagNode") =>
            \A k \in (Top(c).mark + 1)..Len(log) : log[k].ev = "Ignore"
    /\ lastUntil.fn = "ignoreUntilAnyTagNode" =>
        LET stops == StopsAfter(lastUntil.from, lastUntil.names)
        IN  /\ \A k \in (lastUntil.mark + 1)..lastUntil.end : log[k].ev = "Ignore"
            /\ IF stops = {}
               THEN lastUntil.tn = -1 /\ lastUntil.e = ErrNoEndNode(lastUntil.names)
               ELSE /\ lastUntil.e = NoErr
                    /\ lastUntil.tn \in stops
                    /\ \A k \in stops : lastUntil.tn <= k
                    /\ lastUntil.at = lastUntil.tn

\* a call that returned a stop tag after passing a tag with malformed arguments
C4_Witness ==
    /\ lastUntil.fn = "ignoreUntilAnyTagNode"
    /\ lastUntil.e = NoErr
    /\ \E k \in (lastUntil.from + 1)..(lastUntil.tn - 1) :
        nodes[k + 1].kind = "tag" /\ nodes[k + 1].tagargs = <<"{">>

\* what an Execute call returns when no other call runs during it, the cursor at p
RECURSIVE Alone(_, _, _)
Alone(p, ctx, acc) ==
    IF p >= Len(nodes) THEN [str |-> Str(acc), e |-> NoErr]
    ELSE LET r == nodeExecute(nodes[p + 1], ctx)
         IN  IF r.e # NoErr THEN [str |-> NilStr, e |-> ErrExecute(nodes[p + 1], r.e)]
             ELSE Alone(p + 1, ctx, acc \o r.str.s)

\* a call returned something else than it would have, run alone from where the cursor
\* was when it was made
Differs(c) ==
    /\ rets[c].done /\ ~rets[c].panic
    /\ \E r \in {Alone(rets[c].from, rets[c].ctx, <<>>)} :
        rets[c].out # r.str \/ rets[c].err # r.e

\* C5: with at most one Execute in flight at a time, no call reads the node list at or
\* past its end and every call returns the sequential render, that is what it returns
\* when run alone from the cursor it was made at; overlapping calls can do both (the
\* witness).
C5_SingleFlight ==
    ~overlap =>
        \A c \in Calls :
            /\ ~rets[c].panic
            /\ ~Differs(c)
            /\ (InFlight(c) /\ Top(c).pc = "exec") => node_pos < Len(nodes)

\* two overlapping calls: one read the node list past its end, the other returned a
\* render with nodes left out
C5_Witness ==
    /\ overlap
    /\ \E c, d \in Calls :
        /\ rets[c].done /\ rets[c].panic
        /\ Differs(d) /\ rets[d].err = NoErr
        /\ Len(rets[d].out.s) < Len(Alone(rets[d].from, rets[d].ctx, <<>>).str.s)

\* the line and column of the byte at offset off (from 0), counted as the position
\* tracker counts: lines from 1, columns from 1, a newline byte at column 0 of the
\* line it starts
RECURSIVE PositionOf(_)
PositionOf(off) ==
    LET p == IF off = 0 THEN <<1, 0>> ELSE PositionOf(off - 1)
    IN  IF raw[off + 1] = NL THEN <<p[1] + 1, 0>> ELSE <<p[1], p[2] + 1>>

\* the lexer is in one of its state functions
Lexing == state \in {"processContent", "processComment", "processFilter", "processTag"}
InRegion == state \in {"processComment", "processFilter", "processTag"}

\* the offset of the first byte of the construct the lexer is in: of the pending
\* literal, or of the opening '{' of the region
ConstructStart == IF state = "processContent" THEN start ELSE start - 2

\* C6: the line and column stored in every node, and those reported with a parse
\* error, are those of the first byte of the construct: the first byte of the literal
\* for a content node, the opening '{' of the region otherwise (for an error of the
\* Content state, the '{' the lexer is at).
C6_FirstByte ==
    [][Lexing =>
        /\ Len(nodes') > Len(nodes) =>
            \E n \in {nodes'[Len(nodes')]} : <<n.line, n.col>> = PositionOf(ConstructStart)
        /\ (err = NoErr /\ err' # NoErr) =>
            <<line', col'>> = PositionOf(IF state = "processContent" THEN pos
                                         ELSE ConstructStart)]_vars

\* the lexer is at the two-byte closer of the region it is in
AtCloser ==
    /\ InRegion
    /\ getChar(Tpl, 0).c = (CASE state = "processComment" -> "#"
                              [] state = "processFilter" -> "}"
                              [] state = "processTag" -> "%")
    /\ getChar(Tpl, 1).ok /\ getChar(Tpl, 1).c = "}"

\* the text captured for the region the lexer is in
Captured == Slice(raw, start, start + length)

\* C7: a filter region or a tag region whose captured text is empty once trimmed fails
\* with the "Empty filter" or the "Empty tag" error, and no node is emitted for it.
C7_EmptyRegion ==
    [][(state \in {"processFilter", "processTag"} /\ AtCloser /\ TrimSpace(Captured) = <<>>)
        => /\ err' = (IF state = "processFilter" THEN ErrEmptyFilter ELSE ErrEmptyTag)
           /\ nodes' = nodes]_vars

\* the source ends within the region the lexer is in: there is no byte left, or the
\* last byte is the first byte of the closer
AtFileEnd ==
    /\ InRegion
    /\ \/ pos >= Len(raw)
       \/ /\ pos = Len(raw) - 1
          /\ raw[Len(raw)] = (CASE state = "processComment" -> "#"
                                [] state = "processFilter" -> "}"
                                [] state = "processTag" -> "%")

FileEndErrors == {ErrEndComment, ErrEndFilter, ErrEndTag}

EventsOf(c) == {k \in 1..Len(log) : log[k].call = c}
FailuresOf(c) == {k \in EventsOf(c) : log[k].ev = "error"}
LastFailure(c) == CHOOSE k \in FailuresOf(c) : \A j \in FailuresOf(c) : j <= k

\* C9: an Execute call that returns an error returns no string, the error names the
\* line, the column and the text of the node of the node list whose render failed, and
\* once a render has failed in the call no node is rendered.
C9_StopsAtFailure ==
    \A c \in Calls :
        (rets[c].done /\ rets[c].err # NoErr) =>
            /\ rets[c].out = NilStr
            /\ FailuresOf(c) # {}
            /\ \E n \in {nodes[log[LastFailure(c)].node + 1]} :
                /\ rets[c].err[1] = "Error"
                /\ rets[c].err[2] = n.line /\ rets[c].err[3] = n.col
                /\ rets[c].err[4] = n.content
                /\ rets[c].err[5] # NoErr
            /\ \A i, j \in EventsOf(c) :
                (i < j /\ log[i].ev = "error") => log[j].ev = "error"
            /\ node_pos >= log[LastFailure(c)].node

\* a call failed at a node after it had rendered one, with nodes left after it
C9_Witness ==
    /\ ncalls = 1 /\ rets[1].done /\ rets[1].err # NoErr
    /\ rets[1].out = NilStr
    /\ \E k \in {log[Len(log)].node} :
        /\ k >= 1 /\ k + 1 < Len(nodes)
        /\ node_pos = k

\* C10: once a lexer state has set an error no lexer state runs and no node is
\* appended, parsed stays false, and FromString returns the error and no Template.
C10_StopsAtFirstError ==
    [][/\ Lexing => err = NoErr
       /\ err # NoErr =>
            /\ ~Lexing /\ state' \in {"nil", "returned"}
            /\ nodes' = nodes /\ err' = err
            /\ ~parsed /\ ~parsed'
            /\ ~result'.tpl
            /\ state' = "returned" => (result'.done /\ result'.err = ErrParsing(Tpl))
       /\ (err = NoErr /\ err' # NoErr) => (state' = "nil" /\ nodes' = nodes)]_vars

\* FromString failed on a source that goes on after the construct in error
C10_Witness ==
    /\ state = "returned" /\ result.done /\ ~result.tpl
    /\ err # NoErr /\ ~parsed
    /\ pos + 2 < Len(raw)

\* C11: parse called on a Template that was parsed successfully returns nil and
\* changes no field of the Template: the node list, pos, start, length, line, col, err
\* and parsed stay as they are, and no lexer state runs.
C11_ParseAgain ==
    [][(state = "returned" /\ result.tpl /\ reparses' # reparses) =>
        /\ reparses' = Append(reparses, "nil")
        /\ state' = "returned"
        /\ parsed'
        /\ UNCHANGED <<raw, pos, start, length, err, line, col, nodes, parsed, result>>
        /\ UNCHANGED execvars]_vars

\* parse was called twice more on a parsed Template of several nodes
C11_Witness ==
    /\ state = "returned" /\ result.tpl
    /\ reparses = <<"nil", "nil">>
    /\ Len(nodes) >= 2

\* a tag node whose handler is nil
Marker(n) == n.kind = "tag" /\ n.taghandler.nil

\* C12: whenever Execute or executeUntilAnyTagNode executes a tag node whose handler
\* is nil (the cursor reached it and its name is not in the stop set), the node returns
\* the "Unhandled placeholder" error and no string, and the next thing the call does is
\* to fail at that node; the node is never rendered as text.
C12_Unhandled ==
    /\ \A c \in Calls :
        (InFlight(c) /\ Top(c).pc = "ret" /\ Marker(nodes[Top(c).node + 1])) =>
            /\ Top(c).fn \in {"Execute", "executeUntilAnyTagNode"}
            /\ Top(c).e = ErrUnhandled(nodes[Top(c).node + 1].tagname)
            /\ Top(c).str = NilStr
    /\ \A c \in Calls :
        (InFlight(c) /\ Top(c).pc = "exec" /\ Marker(nodes[node_pos + 1])) =>
            /\ ~IsStop(nodes[node_pos + 1], Top(c).names)
            /\ ENABLED NodeCall(c)
    /\ \A k \in 1..Len(log) :
        (log[k].ev = "execute" /\ Marker(nodes[log[k].node + 1])) =>
            \/ k = Len(log) /\ InFlight(log[k].call) /\ Top(log[k].call).pc = "ret"
            \/ /\ k < Len(log)
               /\ log[k + 1] = Event(log[k].call, log[k].node, "error", <<>>)

\* an Execute call failed because the cursor of executeUntilAnyTagNode reached an else
\* outside its stop set
C12_Witness ==
    /\ rets[1].done /\ rets[1].err # NoErr
    /\ rets[1].err[5][1] = "Error in block-execution"
    /\ rets[1].err[5][5] = ErrUnhandled(NameElse)

\* the longest prefix of s without a white space byte
RECURSIVE Word(_)
Word(s) == IF s = <<>> \/ IsSpace(Head(s)) THEN <<>> ELSE <<Head(s)>> \o Word(Tail(s))

\* C13: when the lexer closes a tag region whose trimmed text is not empty, the name
\* is the longest prefix of the trimmed text without white space (space, tab, newline)
\* and the arguments are the trimmed remainder; that name is looked up in the
\* registry: a tag node with the name, the arguments and the handler is appended, or
\* parsing fails with "Tag does not exist" for that name.
C13_TagSplit ==
    [][(state = "processTag" /\ AtCloser /\ TrimSpace(Captured) # <<>>) =>
        \E text \in {TrimSpace(Captured)} :
            \E name \in {Word(text)} :
                IF name \in DOMAIN Tags
                THEN /\ err' = NoErr
                     /\ Len(nodes') = Len(nodes) + 1
                     /\ nodes'[Len(nodes')].kind = "tag"
                     /\ nodes'[Len(nodes')].tagname = name
                     /\ nodes'[Len(nodes')].tagargs =
                            TrimSpace(SubSeq(text, Len(name) + 1, Len(text)))
                     /\ nodes'[Len(nodes')].taghandler = Tags[name]
                ELSE /\ err' = ErrNoTag(name)
                     /\ nodes' = nodes]_vars

\* C14: an Execute call made with an absent context, a nil pointer or a pointer to a
\* nil Context, does not crash and returns what a call with the empty Context returns.
C14_AbsentContext ==
    \A c \in Calls :
        (rets[c].arg \in {"nilptr", "nilmap"} /\ rets[c].done) =>
            /\ ~rets[c].panic
            /\ \E r \in {Alone(rets[c].from, EmptyCtx, <<>>)} :
                rets[c].out = r.str /\ rets[c].err = r.e

\* the least element of a non-empty set of integers
Least(S) == CHOOSE k \in S : \A j \in S : k <= j

\* the nodes executed while the last executeUntilAnyTagNode or ignoreUntilAnyTagNode
\* call ran
ExecutedDuring ==
    {log[k].node : k \in {x \in (lastUntil.mark + 1)..lastUntil.end : log[x].ev = "execute"}}

\* in every call the nodes are executed in increasing index order, none twice
ExecutedInOrder ==
    \A k, l \in 1..Len(log) :
        (k < l /\ log[k].call = log[l].call /\ log[k].ev = "execute"
               /\ log[l].ev = "execute") => log[k].node < log[l].node

\* the last call of executeUntilAnyTagNode that returned found a stop node
UntilStopped == lastUntil.fn = "executeUntilAnyTagNode" /\ lastUntil.e = NoErr

\* no node after the stop node it returned was executed before that stop node
NotRenderedLater ==
    \A k \in (lastUntil.end + 1)..Len(log) :
        (log[k].call = lastUntil.call /\ log[k].ev = "execute") => log[k].node > lastUntil.tn

\* C15 as stated: a call of executeUntilAnyTagNode made at node i that finds a stop
\* node returns j, the first tag node after i whose name is in the stop set, with the
\* cursor on it, having rendered the nodes i+1 .. j-1 once each in index order; j is not
\* rendered then or later, and no node is rendered twice.
C15_RunUntil ==
    /\ ExecutedInOrder
    /\ UntilStopped =>
        /\ StopsAfter(lastUntil.from, lastUntil.names) # {}
        /\ lastUntil.tn = Least(StopsAfter(lastUntil.from, lastUntil.names))
        /\ lastUntil.at = lastUntil.tn
        /\ ExecutedDuring = (lastUntil.from + 1)..(lastUntil.tn - 1)
        /\ NotRenderedLater

\* the body up to the first stop tag has no tag whose handler moves the cursor
FlatBody ==
    \A k \in (lastUntil.from + 1)..(Least(StopsAfter(lastUntil.from, lastUntil.names)) - 1) :
        ~CallsBack(nodes[k + 1])

\* C15: a call of executeUntilAnyTagNode made at node i that finds a stop node returns
\* a tag node j after i whose name is in the stop set, with the cursor on it; the nodes
\* executed during the call lie in i+1 .. j-1 and are executed in index order, none
\* twice; j is not rendered then or later.  When no tag between i and the first stop
\* tag after i has a handler that moves the cursor, j is that first stop tag and every
\* node of i+1 .. j-1 is rendered exactly once by the call.
C15_RunUntilReached ==
    /\ ExecutedInOrder
    /\ UntilStopped =>
        /\ lastUntil.tn \in StopsAfter(lastUntil.from, lastUntil.names)
        /\ lastUntil.at = lastUntil.tn
        /\ ~lastUntil.nilgot
        /\ ExecutedDuring \subseteq (lastUntil.from + 1)..(lastUntil.tn - 1)
        /\ NotRenderedLater
        /\ FlatBody =>
            /\ lastUntil.tn = Least(StopsAfter(lastUntil.from, lastUntil.names))
            /\ ExecutedDuring = (lastUntil.from + 1)..(lastUntil.tn - 1)
            /\ Len(lastUntil.got) = lastUntil.tn - lastUntil.from - 1

\* a call returned a stop node that is not the first stop tag after its cursor: the
\* first one closed a nested if of its body
C15_Witness ==
    /\ UntilStopped
    /\ lastUntil.tn > Least(StopsAfter(lastUntil.from, lastUntil.names))
    /\ ExecutedDuring # {}
    /\ rets[lastUntil.call].done /\ rets[lastUntil.call].err = NoErr

\* the last call of ignoreUntilAnyTagNode that returned was made with a tag that opens
\* an if between its cursor and the first stop tag after it
IgnoredOverOpener ==
    /\ lastUntil.fn = "ignoreUntilAnyTagNode"
    /\ StopsAfter(lastUntil.from, lastUntil.names) # {}
    /\ \E k \in (lastUntil.from + 1)..(Least(StopsAfter(lastUntil.from, lastUntil.names)) - 1) :
        nodes[k + 1].kind = "tag" /\ nodes[k + 1].tagname = NameIf

\* C16: ignoreUntilAnyTagNode counts no nesting: with an if opened between the cursor
\* and the first stop tag after it, it still returns that first stop tag (the closer of
\* the nested if), the cursor on it, and the node after it is the next one the caller
\* renders.
C16_NoNesting ==
    IgnoredOverOpener =>
        /\ lastUntil.e = NoErr
        /\ lastUntil.tn = Least(StopsAfter(lastUntil.from, lastUntil.names))
        /\ lastUntil.at = lastUntil.tn
        /\ (Len(log) > lastUntil.end /\ log[lastUntil.end + 1].ev = "execute") =>
            log[lastUntil.end + 1].node = lastUntil.tn + 1

\* the untaken branch of an if held a nested if: the call returned the inner endif and
\* the node after it, before the outer endif, was rendered
C16_Witness ==
    /\ IgnoredOverOpener
    /\ nodes[lastUntil.tn + 1].tagname = NameEndif
    /\ Len(log) > lastUntil.end
    /\ log[lastUntil.end + 1] = Event(lastUntil.call, lastUntil.tn + 1, "execute", <<>>)
    /\ \E k \in (lastUntil.tn + 2)..(Len(nodes) - 1) :
        nodes[k + 1].kind = "tag" /\ nodes[k + 1].tagname = NameEndif

\* the Ignore calls due for the nodes k .. to-1, in node order: one for each tag node
\* whose handler is not nil and has the hook, with the arguments of the tag
RECURSIVE Notices(_, _, _)
Notices(c, k, to) ==
    IF k >= to THEN <<>>
    ELSE (IF /\ nodes[k + 1].kind = "tag"
             /\ ~nodes[k + 1].taghandler.nil
             /\ nodes[k + 1].taghandler.Ignore
          THEN <<Event(c, k, "Ignore", nodes[k + 1].tagargs)>>
          ELSE <<>>) \o Notices(c, k + 1, to)

\* C17: the calls made during a call of ignoreUntilAnyTagNode are exactly one Ignore
\* call, in node order and with the tag's arguments, for each tag node between the
\* cursor and the stop node returned (or the end of the node list when there is none)
\* whose handler is not nil and has the hook: none for the stop node, for content or
\* filter nodes, for tags with a nil handler or without the hook, or for later nodes.
C17_IgnoreHook ==
    lastUntil.fn = "ignoreUntilAnyTagNode" =>
        SubSeq(log, lastUntil.mark + 1, lastUntil.end) =
            Notices(lastUntil.call, lastUntil.from + 1,
                    IF lastUntil.e = NoErr THEN lastUntil.tn ELSE Len(nodes))

\* a call passed a tag with the hook and a node without it, and returned a stop node
C17_Witness ==
    /\ lastUntil.fn = "ignoreUntilAnyTagNode" /\ lastUntil.e = NoErr
    /\ lastUntil.tn >= lastUntil.from + 3
    /\ lastUntil.end = lastUntil.mark + 1
    /\ log[lastUntil.end].ev = "Ignore" /\ log[lastUntil.end].args = <<"a">>
    /\ \E k \in (lastUntil.from + 1)..(lastUntil.tn - 1) : nodes[k + 1].tagname # NameNow

\* the number of newline bytes among the first n bytes of the source
RECURSIVE Newlines(_)
Newlines(n) == IF n = 0 THEN 0 ELSE Newlines(n - 1) + (IF raw[n] = NL THEN 1 ELSE 0)

\* C18: while the lexer runs and pos is within the source, line and col are those
\* obtained by counting each byte of raw[0..pos] once, in order, from line 1, column 0
\* (a newline byte: line+1 and column 0; any other byte: column+1), so line is 1 plus
\* the number of newline bytes in raw[0..pos]; with pos at the end of the source they
\* are those of the last byte.
C18_Tracker ==
    Lexing =>
        /\ <<line, col>> = PositionOf(IF pos < Len(raw) THEN pos ELSE Len(raw) - 1)
        /\ line = 1 + Newlines(IF pos < Len(raw) THEN pos + 1 ELSE Len(raw))

\* the lexer is inside a region opened after a newline, past the two bytes of the opener
C18_Witness ==
    /\ InRegion /\ pos < Len(raw)
    /\ line = 2 /\ col = 3
    /\ raw[1] = NL /\ raw[2] = "{"

\* pos is within the source or at its end, the captured text lies before pos, and the
\* loop of parse has made at most one call more than there are bytes before pos
Forward ==
    /\ 0 <= pos /\ pos <= Len(raw)
    /\ 0 <= start /\ 0 <= length /\ start + length <= pos
    /\ steps <= (IF Lexing THEN pos ELSE pos + 1)
    /\ steps <= Len(raw) + 1

\* C19: every call of a lexer state function either ends the parse (returns nil) or
\* moves pos forward; pos stays within 0 .. rawLen and start + length <= pos; so the
\* loop of parse makes at most rawLen + 1 calls.
C19_Forward ==
    [][/\ Forward /\ Forward'
       /\ Lexing =>
            /\ steps' = steps + 1
            /\ state' = "nil" \/ (Lexing' /\ pos' > pos)]_vars

\* a parse that ended after rawLen + 1 calls, each of the others having moved pos by one
C19_Witness ==
    /\ state = "returned" /\ result.tpl
    /\ Len(raw) >= 3
    /\ steps = Len(raw) + 1

\* the nodes call c has rendered or called the Ignore hook of
Seen(c) ==
    {log[k].node : k \in {j \in 1..Len(log) : log[j].call = c /\ log[j].ev # "error"}}

\* the step renders the node at the cursor, or passes it in ignoreUntilAnyTagNode
Touches(c) ==
    \/ Len(log') > Len(log) /\ log'[Len(log')].ev # "error"
    \/ Top(c).fn = "ignoreUntilAnyTagNode" /\ node_pos' # node_pos

\* C20: while an Execute runs whose handlers move the cursor only through
\* executeUntilAnyTagNode and ignoreUntilAnyTagNode and pass their errors on, node_pos
\* never decreases and moves by one, a node is read only at an index below len(nodes),
\* no node is rendered or passed that the call has rendered or passed before, and
\* node_pos is len(nodes) when Execute returns without an error.
C20_Cursor ==
    [][\A c \in Calls :
        InFlight(c) =>
            /\ node_pos' \in {node_pos, node_pos + 1}
            /\ node_pos' <= Len(nodes)
            /\ (stack'[c] # <<>> /\ stack'[c][Len(stack'[c])].pc = "exec") =>
                    node_pos' < Len(nodes)
            /\ Touches(c) =>
                    /\ node_pos < Len(nodes)
                    /\ \A i \in Seen(c) : i < node_pos
            /\ (rets'[c].done /\ rets'[c].err = NoErr) =>
                    /\ ~rets'[c].panic
                    /\ node_pos' = Len(nodes)]_vars

\* an Execute returned without an error after it rendered an if whose handler passed
\* more than one node, and the cursor is at the end of a list of four nodes or more
C20_Witness ==
    /\ rets[1].done /\ rets[1].err = NoErr /\ ~rets[1].panic
    /\ lastUntil.fn = "ignoreUntilAnyTagNode" /\ lastUntil.call = 1
    /\ lastUntil.at > lastUntil.from + 2
    /\ Seen(1) # {}
    /\ Len(nodes) >= 4 /\ node_pos = Len(nodes)

====
